---- MODULE Spec2Model ----
(***************************************************************************)
(* mod_cspnonce: a per-request CSP nonce for Apache httpd.                 *)
(*                                                                         *)
(* The module models src/mod_cspnonce.c:                                   *)
(*   - GenSecureCSPNonce: 9 random bytes (BCrypt on _WIN32, the C          *)
(*     library's srandom()/random() seeded from the clock otherwise),      *)
(*     base64-encoded into a 13-byte pool allocation;                      *)
(*   - set_cspnonce: the post_read_request hook, which copies              *)
(*     REDIRECT_CSP_NONCE on an internal redirect or generates a nonce,    *)
(*     and publishes it as CSP_NONCE.                                      *)
(*                                                                         *)
(* Strings are sequences of one-character strings; bytes are 0..255.       *)
(***************************************************************************)
EXTENDS Integers, Sequences, FiniteSets, TLC

VARIABLES build,    \* the build: which side of #ifdef _WIN32 was compiled
          reqs,     \* the request chain: request_rec's linked by prev
          obs,      \* per request: what the hook did (history of the calls)
          input,    \* single call: what the platform hands GenSecureCSPNonce
          result,   \* single call: what GenSecureCSPNonce returned
          calls,    \* per worker: the position and locals of a running call
          prng      \* the C library's process-wide generator state

vars == <<build, reqs, obs, input, result, calls, prng>>

----------------------------------------------------------------------------
(* Bounds of the model. *)

MaxHops == 3        \* contexts in one request chain (root + redirects)
MaxSec == 2         \* clock readings: tv_sec  in Epoch .. Epoch + MaxSec
MaxNsec == 2        \* clock readings: tv_nsec in {0, Step, .., MaxNsec*Step}
MaxFill == 1        \* provider outputs used in chains and concurrent calls
NumWorkers == 2     \* worker threads running GenSecureCSPNonce concurrently

(* Byte values the provider's output is drawn from in the single-call      *)
(* specification: all zero bits, all one bits, and a mixed pattern.          *)
SampleBytes == {0, 105, 255}

----------------------------------------------------------------------------
(* Program constants. *)

(* A buffer that is no multiple of 3 bytes. *)
RandomBytesLen_eight == 9 - 1

RandomBytesLen == 9
AllocSize == 13
DECLINED == -1
Uninit == -1

NULL == <<"NULL">>  \* the null pointer: no string holds this element

Builds == {"win32", "posix_le", "posix_be"}
IsPosix(b) == b # "win32"

----------------------------------------------------------------------------
(* apr_base64_encode, as called at line 117. *)

basis_64 ==
  << "A","B","C","D","E","F","G","H","I","J","K","L","M",
     "N","O","P","Q","R","S","T","U","V","W","X","Y","Z",
     "a","b","c","d","e","f","g","h","i","j","k","l","m",
     "n","o","p","q","r","s","t","u","v","w","x","y","z",
     "0","1","2","3","4","5","6","7","8","9","+","/" >>

Pad == "="

B64(i) == basis_64[i + 1]

(* One full group: 3 bytes to 4 characters. *)
EncodeGroup(a, b, c) ==
  << B64((a \div 4) % 64),
     B64(((a % 4) * 16) + ((b \div 16) % 16)),
     B64(((b % 16) * 4) + ((c \div 64) % 4)),
     B64(c % 64) >>

(* The tail: 1 or 2 remaining bytes, padded with '='. *)
EncodeTail(s) ==
  IF Len(s) = 0 THEN << >>
  ELSE IF Len(s) = 1
       THEN << B64((s[1] \div 4) % 64), B64((s[1] % 4) * 16), Pad, Pad >>
       ELSE << B64((s[1] \div 4) % 64),
               B64(((s[1] % 4) * 16) + ((s[2] \div 16) % 16)),
               B64((s[2] % 16) * 4), Pad >>

RECURSIVE apr_base64_encode(_)
apr_base64_encode(s) ==
  IF Len(s) >= 3
  THEN EncodeGroup(s[1], s[2], s[3]) \o apr_base64_encode(SubSeq(s, 4, Len(s)))
  ELSE EncodeTail(s)

----------------------------------------------------------------------------
(* The POSIX side: timespec_get, srandom, random, memcpy (lines 83-104).   *)
(* Line 83 declares int r in the block that already holds the parameter    *)
(* r; the model follows the evident intent: the draw is a local int, the   *)
(* pool of line 112 is the request's.  An int is 4 bytes, in either byte   *)
(* order.                                                                  *)

RECURSIVE Xor(_, _)
Xor(a, b) ==
  IF a = 0 THEN b
  ELSE IF b = 0 THEN a
  ELSE 2 * Xor(a \div 2, b \div 2) + (((a % 2) + (b % 2)) % 2)

Secs == {1700000000 + i : i \in 0..MaxSec}
Nsecs == {j * 250000001 : j \in 0..MaxNsec}
ClockReadings == [tv_sec : Secs, tv_nsec : Nsecs]

Seed(ts) == Xor(ts.tv_nsec, ts.tv_sec)

(* The C library's generator is not part of the repository.  It is a       *)
(* deterministic function of one process-wide state, set by srandom() and  *)
(* advanced by every random(), with results in 0 .. 2^31-1.  The model     *)
(* uses the Lehmer generator x' = 16807 x mod (2^31 - 1), computed without *)
(* overflow by Schrage's decomposition.                                    *)
Srandom(seed) == IF seed % 2147483647 = 0 THEN 1 ELSE seed % 2147483647

Random(state) ==
  LET t == 16807 * (state % 127773) - 2836 * (state \div 127773)
  IN  IF t > 0 THEN t ELSE t + 2147483647

(* The 4 bytes of an int's object representation. *)
ObjectBytes(v, b) ==
  LET le == << v % 256, (v \div 256) % 256, (v \div 65536) % 256,
               (v \div 16777216) % 256 >>
  IN  IF b = "posix_be" THEN << le[4], le[3], le[2], le[1] >> ELSE le

(* memcpy(dst + off, src, 4) into a buffer. *)
Memcpy(buf, off, src) ==
  [i \in 1..Len(buf) |->
     IF i > off /\ i <= off + 4 THEN src[i - off] ELSE buf[i]]

(* A third memcpy aimed at the second one's offset. *)
DrawOffset_repeated(n) == CASE n = 1 -> 0 [] OTHER -> 4

(* Where the n-th draw is copied: random_bytes, random_bytes + 4,          *)
(* random_bytes + 5.                                                       *)
DrawOffset(n) == CASE n = 1 -> 0 [] n = 2 -> 4 [] OTHER -> 5

EmptyBuffer == [i \in 1..RandomBytesLen |-> Uninit]

(* The buffer after srandom(seed) and the three draws, run alone. *)
PosixFill(ts, b) ==
  LET d1 == Random(Srandom(Seed(ts)))
      d2 == Random(d1)
      d3 == Random(d2)
      b1 == Memcpy(EmptyBuffer, DrawOffset(1), ObjectBytes(d1, b))
      b2 == Memcpy(b1, DrawOffset(2), ObjectBytes(d2, b))
  IN  Memcpy(b2, DrawOffset(3), ObjectBytes(d3, b))

----------------------------------------------------------------------------
(* GenSecureCSPNonce (lines 51-120).                                       *)

(* What the platform does during one call. *)
PosixInputs(clock) ==
  {[clock_ok |-> FALSE]} \cup
  {[clock_ok |-> TRUE, ts |-> t] : t \in clock}

Win32Inputs(buffers) ==
  {[open_ok |-> FALSE], [open_ok |-> TRUE, gen_ok |-> FALSE]} \cup
  {[open_ok |-> TRUE, gen_ok |-> TRUE, bytes |-> x] : x \in buffers}

(* An encoder handed one byte too few. *)
EncodeNonce_short(bytes) ==
  LET enc == apr_base64_encode(SubSeq(bytes, 1, Len(bytes) - 1))
  IN  [id |-> enc, written |-> Len(enc) + 1]

(* Lines 107-119: allocate AllocSize bytes, encode, return the C string.   *)
(* written counts the bytes apr_base64_encode stores, terminator included. *)
EncodeNonce(bytes) ==
  LET enc == apr_base64_encode(bytes)
  IN  [id |-> enc, written |-> Len(enc) + 1]

Failed == [id |-> NULL, written |-> 0]

GenSecureCSPNonce(b, in) ==
  IF IsPosix(b)
  THEN IF ~in.clock_ok THEN Failed
       ELSE EncodeNonce(PosixFill(in.ts, b))
  ELSE IF ~in.open_ok THEN Failed
       ELSE IF ~in.gen_ok THEN Failed
       ELSE EncodeNonce(in.bytes)

----------------------------------------------------------------------------
(* A single call of GenSecureCSPNonce on every input.                      *)

AllBuffers == [1..RandomBytesLen -> SampleBytes]

AllInputs(b) ==
  IF IsPosix(b) THEN PosixInputs(ClockReadings) ELSE Win32Inputs(AllBuffers)

Pending == [id |-> <<"pending">>, written |-> 0]

InitGen ==
  /\ build \in Builds
  /\ input \in AllInputs(build)
  /\ result = Pending
  /\ reqs = << >>
  /\ obs = << >>
  /\ calls = << >>
  /\ prng = 1

Generate ==
  /\ result = Pending
  /\ result' = GenSecureCSPNonce(build, input)
  /\ UNCHANGED <<build, reqs, obs, input, calls, prng>>

NextGen == Generate

SpecGen == InitGen /\ [][NextGen]_vars

----------------------------------------------------------------------------
(* The request environment: an apr_table_t, a map from keys to strings.    *)

apr_table_make == [k \in {} |-> NULL]

apr_table_get(t, key) == IF key \in DOMAIN t THEN t[key] ELSE NULL

apr_table_setn(t, key, val) ==
  [k \in DOMAIN t \cup {key} |-> IF k = key THEN val ELSE t[k]]

----------------------------------------------------------------------------
(* set_cspnonce (lines 122-140).                                           *)

NULLREQ == 0    \* r->prev of a request that is no internal redirect

(* A hook that never looks at the redirecting request. *)
inherited_id_never(r) == NULL

(* Lines 124-130: the id copied from the redirecting request, if any. *)
inherited_id(r) ==
  IF r.prev # NULLREQ
  THEN apr_table_get(r.subprocess_env, "REDIRECT_CSP_NONCE")
  ELSE NULL

(* A hook that generates first and inherits afterwards. *)
resolve_id_eager(r, b, in) ==
  LET id == inherited_id(r)
      gen == GenSecureCSPNonce(b, in).id
  IN  [id |-> IF id = NULL THEN gen ELSE id, gen_calls |-> 1]

(* A hook that asks for entropy a second time after a failure. *)
resolve_id_retry(r, b, in) ==
  LET id == inherited_id(r)
      gen == GenSecureCSPNonce(b, in).id
  IN  IF id # NULL THEN [id |-> id, gen_calls |-> 0]
      ELSE IF gen # NULL THEN [id |-> gen, gen_calls |-> 1]
      ELSE [id |-> GenSecureCSPNonce(b, in).id, gen_calls |-> 2]

(* Lines 132-133: GenSecureCSPNonce is called only without an id. *)
resolve_id(r, b, in) ==
  LET id == inherited_id(r)
  IN  IF id = NULL
      THEN [id |-> GenSecureCSPNonce(b, in).id, gen_calls |-> 1]
      ELSE [id |-> id, gen_calls |-> 0]

(* A hook that stores the id without the NULL test (an empty value). *)
publish_unchecked(env, id) ==
  [env |-> apr_table_setn(env, "CSP_NONCE", IF id = NULL THEN << >> ELSE id),
   setn_calls |-> 1]

(* Lines 135-137: the one write to the environment. *)
publish(env, id) ==
  IF id # NULL
  THEN [env |-> apr_table_setn(env, "CSP_NONCE", id), setn_calls |-> 1]
  ELSE [env |-> env, setn_calls |-> 0]

(* A hook that reports the entropy failure to the host. *)
hook_status_error(id) == IF id = NULL THEN 500 ELSE DECLINED

(* Line 139. *)
hook_status(id) == DECLINED

(* A hook that publishes only a nonce it generated itself. *)
set_cspnonce_generated_only(r, b, in) ==
  LET res == resolve_id(r, b, in)
      pub == publish(r.subprocess_env, IF res.gen_calls = 1 THEN res.id ELSE NULL)
  IN  [subprocess_env |-> pub.env,
       ret            |-> hook_status(res.id),
       id             |-> res.id,
       gen_calls      |-> res.gen_calls,
       setn_calls     |-> pub.setn_calls]

set_cspnonce(r, b, in) ==
  LET res == resolve_id(r, b, in)
      pub == publish(r.subprocess_env, res.id)
  IN  [subprocess_env |-> pub.env,
       ret            |-> hook_status(res.id),
       id             |-> res.id,
       gen_calls      |-> res.gen_calls,
       setn_calls     |-> pub.setn_calls]

----------------------------------------------------------------------------
(* The host: it reads a request, runs the post_read_request hook once on   *)
(* every request_rec (line 144), and on an internal redirect builds a new  *)
(* request_rec whose prev is the redirecting one and whose environment is  *)
(* the old one with every key prefixed by REDIRECT_.                       *)

rename_original_env(t) ==
  LET pairs == {<<"REDIRECT_" \o k, t[k]>> : k \in DOMAIN t}
  IN  [k \in {p[1] : p \in pairs} |-> (CHOOSE p \in pairs : p[1] = k)[2]]

ChainBuffers ==
  {[i \in 1..RandomBytesLen |-> (37 * i + 101 * f) % 256] : f \in 0..MaxFill}

ChainInputs(b) ==
  IF IsPosix(b) THEN PosixInputs(ClockReadings) ELSE Win32Inputs(ChainBuffers)

(* What other hooks have put into a fresh request's table. *)
RootEnvs == {apr_table_make, [UNIQUE_ID |-> <<"u">>]}

NewRequest(prev, env) ==
  [prev |-> prev, subprocess_env |-> env, status |-> "created"]

(* The history kept of each request: its environment when the hook was     *)
(* entered, the outcome, the calls made and the value returned.            *)
NewObs(env) ==
  [env_before |-> env, outcome |-> "NotComputed", gen_calls |-> 0,
   setn_calls |-> 0, published |-> NULL, ret |-> << >>]

Outcome(out) ==
  IF out.gen_calls = 0 /\ out.id # NULL THEN "Inherited"
  ELSE IF out.id # NULL THEN "Generated"
  ELSE "Failed"

InitChain(envs) ==
  /\ build \in Builds
  /\ \E e \in envs :
       /\ reqs = << NewRequest(NULLREQ, e) >>
       /\ obs = << NewObs(e) >>
  /\ input = [clock_ok |-> FALSE]
  /\ result = Pending
  /\ calls = << >>
  /\ prng = 1

Init == InitChain(RootEnvs)

(* ap_run_post_read_request on the newest request. *)
PostReadRequest ==
  LET i == Len(reqs)
  IN  /\ reqs[i].status = "created"
      /\ \E in \in ChainInputs(build) :
           LET out == set_cspnonce(reqs[i], build, in)
           IN  /\ reqs' = [reqs EXCEPT ![i].subprocess_env = out.subprocess_env,
                                      ![i].status = "done"]
               /\ obs' = [obs EXCEPT ![i].outcome = Outcome(out),
                                    ![i].gen_calls = @ + out.gen_calls,
                                    ![i].setn_calls = @ + out.setn_calls,
                                    ![i].published = out.id,
                                    ![i].ret = << out.ret >>]
      /\ UNCHANGED <<build, input, result, calls, prng>>

(* ap_internal_redirect from the newest request. *)
InternalRedirect ==
  LET i == Len(reqs)
      env == rename_original_env(reqs[i].subprocess_env)
  IN  /\ i < MaxHops
      /\ reqs[i].status = "done"
      /\ reqs' = Append(reqs, NewRequest(i, env))
      /\ obs' = Append(obs, NewObs(env))
      /\ UNCHANGED <<build, input, result, calls, prng>>

Next == PostReadRequest \/ InternalRedirect

Spec == Init /\ [][Next]_vars

----------------------------------------------------------------------------
(* The same chain on a host whose other modules also write the table: a    *)
(* later phase of the newest request (SetEnv, a rewrite rule's E= flag)    *)
(* stores its own value under CSP_NONCE, and a fresh request may carry a   *)
(* REDIRECT_CSP_NONCE that no redirect put there.                          *)

ForeignValues ==
  { <<"x">>,
    <<"A","A","A","A","A","A","A","A","A","A","A","=">> }

EnvRootEnvs ==
  RootEnvs \cup {[REDIRECT_CSP_NONCE |-> v] : v \in ForeignValues}

InitEnv == InitChain(EnvRootEnvs)

OtherModuleSetsEnv ==
  LET i == Len(reqs)
  IN  /\ reqs[i].status = "done"
      /\ \E v \in ForeignValues :
           reqs' = [reqs EXCEPT ![i].subprocess_env =
                                   apr_table_setn(@, "CSP_NONCE", v)]
      /\ UNCHANGED <<build, obs, input, result, calls, prng>>

NextEnv == PostReadRequest \/ InternalRedirect \/ OtherModuleSetsEnv

SpecEnv == InitEnv /\ [][NextEnv]_vars

----------------------------------------------------------------------------
(* GenSecureCSPNonce statement by statement, on several worker threads of  *)
(* one process.  Every library call is one step (the C library locks its   *)
(* generator inside srandom() and random()); the locals of a call are its  *)
(* own, the generator state is the process's.                              *)

NoSource == << 0, 0 >>

(* The locals of one call on entry: ts, the buffer, the provider handle.   *)
(* draws lists the values random() returned to this call, and src the draw *)
(* and byte of that draw each buffer byte was copied from.                 *)
NewCall(b) ==
  [pc           |-> IF IsPosix(b) THEN "timespec_get" ELSE "open",
   ts           |-> [tv_sec |-> 0, tv_nsec |-> 0],
   draws        |-> << >>,
   random_bytes |-> EmptyBuffer,
   src          |-> [i \in 1..RandomBytesLen |-> NoSource],
   Prov         |-> "none",
   ret          |-> Pending.id]

InitCalls(n) ==
  /\ build \in Builds
  /\ calls = [w \in 1..n |-> NewCall(build)]
  /\ prng = 1
  /\ reqs = << >>
  /\ obs = << >>
  /\ input = [clock_ok |-> FALSE]
  /\ result = Pending

InitConc == InitCalls(NumWorkers)

Return(w, id) ==
  calls' = [calls EXCEPT ![w].pc = "returned", ![w].ret = id]

(* Lines 85-87. *)
TimespecGet(w) ==
  /\ calls[w].pc = "timespec_get"
  /\ \/ Return(w, NULL)
     \/ \E t \in ClockReadings :
          calls' = [calls EXCEPT ![w].ts = t, ![w].pc = "srandom"]
  /\ UNCHANGED <<build, reqs, obs, input, result, prng>>

(* Line 90. *)
SrandomCall(w) ==
  /\ calls[w].pc = "srandom"
  /\ prng' = Srandom(Seed(calls[w].ts))
  /\ calls' = [calls EXCEPT ![w].pc = "random"]
  /\ UNCHANGED <<build, reqs, obs, input, result>>

(* Lines 94-95, 98-99, 103-104: r = random(); memcpy(random_bytes + off).  *)
RandomCall(w) ==
  LET n == Len(calls[w].draws) + 1
      r == Random(prng)
  IN  /\ calls[w].pc = "random"
      /\ prng' = r
      /\ calls' = [calls EXCEPT
           ![w].draws = Append(@, r),
           ![w].random_bytes = Memcpy(@, DrawOffset(n), ObjectBytes(r, build)),
           ![w].src = Memcpy(@, DrawOffset(n), [k \in 1..4 |-> << n, k - 1 >>]),
           ![w].pc = IF n = 3 THEN "encode" ELSE "random"]
      /\ UNCHANGED <<build, reqs, obs, input, result>>

(* Lines 63-66. *)
OpenProvider(w) ==
  /\ calls[w].pc = "open"
  /\ \/ Return(w, NULL)
     \/ calls' = [calls EXCEPT ![w].Prov = "open", ![w].pc = "genrandom"]
  /\ UNCHANGED <<build, reqs, obs, input, result, prng>>

(* Line 68. *)
GenRandom(w) ==
  /\ calls[w].pc = "genrandom"
  /\ \/ calls' = [calls EXCEPT ![w].pc = "close_failed"]
     \/ \E x \in ChainBuffers :
          calls' = [calls EXCEPT ![w].random_bytes = x, ![w].pc = "close"]
  /\ UNCHANGED <<build, reqs, obs, input, result, prng>>

(* Lines 70-71 and 74. *)
CloseProvider(w) ==
  /\ \/ /\ calls[w].pc = "close_failed"
        /\ calls' = [calls EXCEPT ![w].Prov = "closed", ![w].pc = "returned",
                                  ![w].ret = NULL]
     \/ /\ calls[w].pc = "close"
        /\ calls' = [calls EXCEPT ![w].Prov = "closed", ![w].pc = "encode"]
  /\ UNCHANGED <<build, reqs, obs, input, result, prng>>

(* Lines 107-119. *)
Encode(w) ==
  /\ calls[w].pc = "encode"
  /\ Return(w, EncodeNonce(calls[w].random_bytes).id)
  /\ UNCHANGED <<build, reqs, obs, input, result, prng>>

NextConc ==
  \/ \E w \in DOMAIN calls : TimespecGet(w)
  \/ \E w \in DOMAIN calls : SrandomCall(w)
  \/ \E w \in DOMAIN calls : RandomCall(w)
  \/ \E w \in DOMAIN calls : OpenProvider(w)
  \/ \E w \in DOMAIN calls : GenRandom(w)
  \/ \E w \in DOMAIN calls : CloseProvider(w)
  \/ \E w \in DOMAIN calls : Encode(w)

SpecConc == InitConc /\ [][NextConc]_vars

(* One call alone. *)
InitCall == InitCalls(1)

SpecCall == InitCall /\ [][NextConc]_vars

----------------------------------------------------------------------------
(* Properties.                                                             *)

Base64Alphabet ==
  { "A","B","C","D","E","F","G","H","I","J","K","L","M",
    "N","O","P","Q","R","S","T","U","V","W","X","Y","Z",
    "a","b","c","d","e","f","g","h","i","j","k","l","m",
    "n","o","p","q","r","s","t","u","v","w","x","y","z",
    "0","1","2","3","4","5","6","7","8","9","+","/" }

WellFormedNonce(s) ==
  /\ Len(s) = 12
  /\ \A i \in 1..Len(s) : s[i] \in Base64Alphabet /\ s[i] # Pad

Done(i) == reqs[i].status = "done"
HasNonce(i) == "CSP_NONCE" \in DOMAIN reqs[i].subprocess_env
NonceOf(i) == reqs[i].subprocess_env["CSP_NONCE"]
Outcomes == [i \in DOMAIN obs |-> obs[i].outcome]

RECURSIVE SetnTotal(_)
SetnTotal(n) == IF n = 0 THEN 0 ELSE obs[n].setn_calls + SetnTotal(n - 1)

(* C1: in a chain whose environment the host propagates, any two contexts  *)
(* that end with CSP_NONCE set hold the same string, whatever the outcome  *)
(* of each hop.                                                            *)
C1_ChainStability ==
  \A i, j \in DOMAIN reqs :
    (Done(i) /\ Done(j) /\ HasNonce(i) /\ HasNonce(j))
      => NonceOf(i) = NonceOf(j)

C1_Witness ==
  /\ Outcomes = << "Failed", "Generated", "Inherited" >>
  /\ NonceOf(2) = NonceOf(3)

(* C2: a context with a parent and REDIRECT_CSP_NONCE = N publishes N      *)
(* verbatim and GenSecureCSPNonce is not called.                           *)
C2_InheritNoEntropy ==
  \A i \in DOMAIN reqs :
    (Done(i) /\ reqs[i].prev # NULLREQ
       /\ "REDIRECT_CSP_NONCE" \in DOMAIN obs[i].env_before)
      => /\ obs[i].published = obs[i].env_before["REDIRECT_CSP_NONCE"]
         /\ obs[i].gen_calls = 0
         /\ obs[i].setn_calls = 1

C2_Witness ==
  /\ Len(reqs) >= 2
  /\ obs[1].outcome = "Generated"
  /\ Done(2)
  /\ obs[2].env_before["REDIRECT_CSP_NONCE"] = obs[1].published
  /\ obs[2].published = obs[1].published
  /\ obs[2].gen_calls = 0

(* C3: when entropy acquisition fails the hook writes nothing: the         *)
(* environment is as it was on entry, CSP_NONCE is absent, and the hook    *)
(* returns DECLINED.                                                       *)
C3_FailureLeavesEnv ==
  \A i \in DOMAIN reqs :
    obs[i].outcome = "Failed"
      => /\ reqs[i].subprocess_env = obs[i].env_before
         /\ ~HasNonce(i)
         /\ obs[i].setn_calls = 0
         /\ obs[i].published = NULL
         /\ obs[i].ret = << DECLINED >>

C3_Witness ==
  \E i \in DOMAIN reqs :
    /\ obs[i].outcome = "Failed"
    /\ obs[i].gen_calls = 1
    /\ DOMAIN obs[i].env_before # {}
    /\ reqs[i].subprocess_env = obs[i].env_before

(* C4: the hook returns DECLINED in every outcome.                         *)
C4_AlwaysDeclined ==
  \A i \in DOMAIN reqs :
    obs[i].ret = IF Done(i) THEN << DECLINED >> ELSE << >>

C4_Witness ==
  /\ Len(reqs) = 3
  /\ \A i \in 1..3 : Done(i) /\ obs[i].ret = << DECLINED >>
  /\ {obs[i].outcome : i \in 1..3} = {"Failed", "Generated", "Inherited"}

(* C5: every nonce GenSecureCSPNonce returns is 12 characters of the       *)
(* base64 alphabet without padding, and with its terminator fits the       *)
(* bytes allocated for it.                                                 *)
C5_GeneratedFormat ==
  (result # Pending /\ result.id # NULL)
    => /\ WellFormedNonce(result.id)
       /\ result.written = 13
       /\ result.written <= AllocSize

C5_Witness ==
  /\ result # Pending
  /\ result.id # NULL
  /\ "/" \in {result.id[i] : i \in 1..Len(result.id)}
  /\ "a" \in {result.id[i] : i \in 1..Len(result.id)}

(* C6 as stated: every value the hook stores under CSP_NONCE, generated    *)
(* or inherited, is a well-formed nonce.                                   *)
C6_Original ==
  \A i \in DOMAIN reqs :
    obs[i].published # NULL => WellFormedNonce(obs[i].published)

(* C6, amended: a generated value is a well-formed nonce; an inherited     *)
(* value is REDIRECT_CSP_NONCE as found, unvalidated.                      *)
C6_FormatOrVerbatim ==
  \A i \in DOMAIN reqs :
    /\ obs[i].outcome = "Generated" => WellFormedNonce(obs[i].published)
    /\ obs[i].outcome = "Inherited"
         => obs[i].published = obs[i].env_before["REDIRECT_CSP_NONCE"]

C6_Witness ==
  \E i, j \in DOMAIN reqs :
    /\ obs[i].outcome = "Generated"
    /\ obs[j].outcome = "Inherited"
    /\ ~WellFormedNonce(obs[j].published)

(* C7 as stated: CSP_NONCE is written once for the whole chain, or never.  *)
C7_Original == SetnTotal(Len(obs)) <= 1

(* C7, amended: CSP_NONCE is written once in every context that inherits   *)
(* or generates a nonce and never in a context whose entropy acquisition   *)
(* fails, so a chain of n contexts sees up to n writes.                    *)
C7_OncePerContext ==
  /\ \A i \in DOMAIN reqs :
       /\ obs[i].setn_calls =
            IF obs[i].outcome \in {"Inherited", "Generated"} THEN 1 ELSE 0
       /\ Done(i) => (HasNonce(i) <=> obs[i].setn_calls = 1)
  /\ SetnTotal(Len(obs)) <= Len(reqs)

C7_Witness ==
  /\ Len(reqs) >= 2
  /\ \A i \in DOMAIN reqs : Done(i) /\ obs[i].setn_calls = 1
  /\ SetnTotal(Len(obs)) = Len(reqs)

C9_States ==
  \A i \in DOMAIN reqs :
    /\ obs[i].gen_calls <= 1
    /\ Done(i) <=> obs[i].outcome \in {"Inherited", "Generated", "Failed"}
    /\ obs[i].outcome = "Failed" => obs[i].gen_calls = 1
    /\ obs[i].outcome = "Generated" => obs[i].gen_calls = 1
    /\ obs[i].outcome = "Inherited" => obs[i].gen_calls = 0
    /\ (Done(i) /\ i > 1 /\ HasNonce(i - 1)) => obs[i].outcome = "Inherited"
    /\ (Done(i) /\ i > 1 /\ obs[i - 1].outcome = "Failed")
         => obs[i].gen_calls = 1

C9_Terminal ==
  \A i \in DOMAIN obs :
    obs[i].outcome # "NotComputed" => (i \in DOMAIN obs' /\ obs'[i] = obs[i])

(* C9 as stated: one terminal outcome per context, and after a Failed      *)
(* outcome no entropy attempt at any later hop of the chain.               *)
C9_Original ==
  \A i, j \in DOMAIN reqs :
    /\ obs[i].gen_calls <= 1
    /\ (i < j /\ obs[i].outcome = "Failed") => obs[j].gen_calls = 0

(* C9, amended: every context moves from NotComputed to one of Inherited,  *)
(* Generated or Failed and stays there with at most one entropy request; a *)
(* context whose parent resolved a nonce ends Inherited; a context whose   *)
(* parent Failed makes its own, single, entropy request.                   *)
C9_PerContext == [](C9_States) /\ [][C9_Terminal]_vars

C9_Witness ==
  /\ Len(reqs) = 3
  /\ obs[1].outcome = "Failed"
  /\ obs[2].outcome = "Failed"
  /\ obs[3].outcome = "Generated"
  /\ obs[2].gen_calls = 1 /\ obs[3].gen_calls = 1

SoloNonce(w) ==
  GenSecureCSPNonce(build, [clock_ok |-> TRUE, ts |-> calls[w].ts]).id

(* C8: a call of GenSecureCSPNonce shares no mutable state with another    *)
(* call: the nonce it returns is the one the same call computes from its   *)
(* own clock reading when it runs alone, and its provider handle is        *)
(* closed when it returns.                                                 *)
C8_NoSharedState ==
  \A w \in DOMAIN calls :
    calls[w].pc = "returned"
      => /\ calls[w].Prov # "open"
         /\ (IsPosix(build) /\ calls[w].ret # NULL)
              => calls[w].ret = SoloNonce(w)

Sources(w) == {calls[w].src[i] : i \in 1..RandomBytesLen} \ {NoSource}

FallbackDone(w) ==
  IsPosix(build) /\ calls[w].pc \in {"encode", "returned"}
    /\ Len(calls[w].draws) = 3

(* C10 as stated: the draws land at offsets 0-3, 4-7 and 5-8 and only 6 of *)
(* the 9 encoded bytes carry drawn data of their own.                      *)
C10_Original ==
  \A w \in DOMAIN calls :
    FallbackDone(w) => Cardinality(Sources(w)) = 6

DrawByte(w, s) == ObjectBytes(calls[w].draws[s[1]], build)[s[2] + 1]

ExpectedSrc(n) ==
  CASE n = 0 -> << NoSource, NoSource, NoSource, NoSource, NoSource,
                   NoSource, NoSource, NoSource, NoSource >>
    [] n = 1 -> << <<1,0>>, <<1,1>>, <<1,2>>, <<1,3>>, NoSource,
                   NoSource, NoSource, NoSource, NoSource >>
    [] n = 2 -> << <<1,0>>, <<1,1>>, <<1,2>>, <<1,3>>, <<2,0>>,
                   <<2,1>>, <<2,2>>, <<2,3>>, NoSource >>
    [] OTHER -> << <<1,0>>, <<1,1>>, <<1,2>>, <<1,3>>, <<2,0>>,
                   <<3,0>>, <<3,1>>, <<3,2>>, <<3,3>> >>

(* C10, amended: the three draws are copied to offsets 0-3, 4-7 and 5-8 in *)
(* that order; the third overwrites bytes 5-7 of the second; every one of  *)
(* the 9 encoded bytes is a byte of a draw of its own (4 of the first      *)
(* draw, 1 of the second, 4 of the third), and 3 of the 12 drawn bytes are *)
(* dropped.                                                                *)
C10_OverlappingDraws ==
  \A w \in DOMAIN calls :
    IsPosix(build) =>
      /\ calls[w].src = ExpectedSrc(Len(calls[w].draws))
      /\ \A i \in 1..RandomBytesLen :
           calls[w].random_bytes[i] =
             IF calls[w].src[i] = NoSource THEN Uninit
             ELSE DrawByte(w, calls[w].src[i])
      /\ FallbackDone(w) =>
           /\ Cardinality(Sources(w)) = 9
           /\ Sources(w) \cap {<<2,1>>, <<2,2>>, <<2,3>>} = {}

C10_Witness ==
  \E w \in DOMAIN calls :
    /\ FallbackDone(w)
    /\ calls[w].pc = "returned"
    /\ calls[w].ret # NULL
    /\ calls[w].random_bytes[6] # ObjectBytes(calls[w].draws[2], build)[2]

====
